---- MODULE Spec2Model ----
(***************************************************************************)
(* Model of the frontmatter-lint VuePress plugin (src/index.js).          *)
(*                                                                         *)
(* The plugin factory (module.exports) closes over one collector,         *)
(* errorsByPath, and returns the hooks extendPageData, updated and ready. *)
(* Each hook is one action.  The validation helpers are operators.        *)
(*                                                                         *)
(* JavaScript values are records: t is the result of typeof, proto the    *)
(* set of constructors the value is an instance of, v its payload as      *)
(* text, ref the object identity (0 for primitives).  Text that the code  *)
(* builds (JSON, type names) is a sequence of tokens.                     *)
(***************************************************************************)
EXTENDS Integers, Sequences, FiniteSets, TLC

\* Bounds of the model.
MaxKeys == 2        \* keys in one frontmatter (specification SpecValidate)
MaxCalls == 4       \* hook calls in one run (specification Spec)

----------------------------------------------------------------------------
\* JavaScript values

Str(s) == [t |-> "string", isNull |-> FALSE, proto |-> {}, v |-> s, ref |-> 0]
Num(s) == [t |-> "number", isNull |-> FALSE, proto |-> {}, v |-> s, ref |-> 0]
VTrue == [t |-> "boolean", isNull |-> FALSE, proto |-> {}, v |-> "true", ref |-> 0]
VFalse == [t |-> "boolean", isNull |-> FALSE, proto |-> {}, v |-> "false", ref |-> 0]
VNull == [t |-> "object", isNull |-> TRUE, proto |-> {}, v |-> "null", ref |-> 0]
VUndefined == [t |-> "undefined", isNull |-> FALSE, proto |-> {}, v |-> "undefined", ref |-> 0]
\* new String(s): a primitive wrapper object
Boxed(s, r) == [t |-> "object", isNull |-> FALSE, proto |-> {"String", "Object"}, v |-> s, ref |-> r]
\* a Date, as a YAML parser yields for an unquoted date
DateObj(s, r) == [t |-> "object", isNull |-> FALSE, proto |-> {"Date", "Object"}, v |-> s, ref |-> r]

\* typeof value
TypeOf(value) == value.t

\* a === b: primitives by kind and payload, objects by identity
StrictEq(a, b) ==
    IF a.ref # 0 \/ b.ref # 0 THEN a.ref = b.ref ELSE a.t = b.t /\ a.v = b.v /\ a.isNull = b.isNull

\* the value as a condition: null, undefined, false, '' and 0 are falsy
Truthy(value) ==
    /\ ~value.isNull
    /\ value.t # "undefined"
    /\ ~(value.t = "boolean" /\ value.v = "false")
    /\ ~(value.t = "string" /\ value.v = "")
    /\ ~(value.t = "number" /\ value.v = "0")

----------------------------------------------------------------------------
\* Type descriptors: what a spec's `type` property may hold.  src is the
\* token text of toString(), ctor the constructor that instanceof compares.

Ctor(name) == [falsy |-> FALSE, callable |-> TRUE, hasProto |-> TRUE,
               src |-> <<"function", name, "(", ")">>, ctor |-> name]
\* type missing from the spec
TUndefined == [falsy |-> TRUE, callable |-> FALSE, hasProto |-> FALSE, src |-> <<>>, ctor |-> ""]
\* type: 'String' (the name as a string)
TText == [falsy |-> FALSE, callable |-> FALSE, hasProto |-> FALSE, src |-> <<"String">>, ctor |-> ""]
\* type: function () {}
TAnon == [falsy |-> FALSE, callable |-> TRUE, hasProto |-> TRUE,
          src |-> <<"function", "(", ")">>, ctor |-> "(anonymous)"]
\* type: () => {}
TArrow == [falsy |-> FALSE, callable |-> TRUE, hasProto |-> FALSE,
           src |-> <<"(", ")", "=>">>, ctor |-> ""]

\* \w+
IsWord(tok) == tok \notin {"(", ")", "=>", "{", "}", ""}

\* fn && fn.toString().match(/^\s*function (\w+)/) ? match[1] : ''
getType(fn) ==
    IF ~fn.falsy /\ Len(fn.src) >= 2 /\ fn.src[1] = "function" /\ IsWord(fn.src[2])
    THEN fn.src[2] ELSE ""

\* /^(String|Number|Boolean|Function|Symbol)$/
simpleCheckRE(name) == name \in {"String", "Number", "Boolean", "Function", "Symbol"}

\* String.prototype.toLowerCase on the names simpleCheckRE lets through
toLowerCase(name) ==
    CASE name = "String" -> "string"
      [] name = "Number" -> "number"
      [] name = "Boolean" -> "boolean"
      [] name = "Function" -> "function"
      [] name = "Symbol" -> "symbol"
      [] OTHER -> name

\* value instanceof type: "throw" is a TypeError (right-hand side not
\* callable, or a callable without a prototype object and an object value)
InstanceOf(value, type) ==
    IF ~type.callable THEN "throw"
    ELSE IF value.isNull \/ value.t \notin {"object", "function"} THEN "false"
    ELSE IF ~type.hasProto THEN "throw"
    ELSE IF type.ctor \in value.proto THEN "true" ELSE "false"

assertType(value, type) ==
    LET expectedType == getType(type)
        t == TypeOf(value)
        inst == InstanceOf(value, type)
    IN  IF simpleCheckRE(expectedType)
        THEN IF t = toLowerCase(expectedType)
             THEN [thrown |-> FALSE, valid |-> TRUE, expectedType |-> expectedType]
             ELSE IF t = "object"
                  THEN [thrown |-> inst = "throw", valid |-> inst = "true",
                        expectedType |-> expectedType]
                  ELSE [thrown |-> FALSE, valid |-> FALSE, expectedType |-> expectedType]
        ELSE [thrown |-> inst = "throw", valid |-> inst = "true",
              expectedType |-> expectedType]

\* Mutant: allowedValues.indexOf(value) > 0
assertAllowedValueFromSecond(value, allowedValues) ==
    \E i \in 2..Len(allowedValues) : StrictEq(allowedValues[i], value)

\* allowedValues.indexOf(value) > -1
assertAllowedValue(value, allowedValues) ==
    \E i \in 1..Len(allowedValues) : StrictEq(allowedValues[i], value)

----------------------------------------------------------------------------
\* Text, as token sequences

Tok(q, s) == [quoted |-> q, text |-> s]

\* a JavaScript string as text ('' is the empty sequence)
Text(s) == IF s = "" THEN <<>> ELSE <<Tok(FALSE, s)>>

\* JSON.stringify of one value: strings, String wrappers and Dates are
\* quoted; undefined inside an array, and null, print as null
JSONValue(value) ==
    IF value.isNull \/ value.t = "undefined" THEN Tok(FALSE, "null")
    ELSE IF value.t = "string" \/ value.proto # {} THEN Tok(TRUE, value.v)
    ELSE Tok(FALSE, value.v)

\* JSON.stringify(array)
JSONArray(arr) ==
    <<Tok(FALSE, "[")>> \o [i \in 1..Len(arr) |-> JSONValue(arr[i])] \o <<Tok(FALSE, "]")>>

\* String(value), as template literals and + apply it
ToText(value) == Text(value.v)

----------------------------------------------------------------------------
\* Violations (the error objects handed to addError).  `has` names the
\* properties the object literal sets besides `error`.

MissingKey(fieldName) ==
    [error |-> "MISSING_KEY", has |-> {"key"}, key |-> fieldName,
     expected |-> <<>>, got |-> VUndefined]
EmptyKey ==
    [error |-> "EMPTY_KEY", has |-> {}, key |-> "", expected |-> <<>>, got |-> VUndefined]
InvalidKey(key) ==
    [error |-> "INVALID_KEY", has |-> {"key"}, key |-> key,
     expected |-> <<>>, got |-> VUndefined]
EmptyValue(key) ==
    [error |-> "EMPTY_VALUE", has |-> {"key"}, key |-> key,
     expected |-> <<>>, got |-> VUndefined]
InvalidType(key, expected, got) ==
    [error |-> "INVALID_TYPE", has |-> {"key", "expected", "got"}, key |-> key,
     expected |-> Text(expected), got |-> Str(got)]
InvalidValue(key, expected, got) ==
    [error |-> "INVALID_VALUE", has |-> {"key", "expected", "got"}, key |-> key,
     expected |-> expected, got |-> got]

----------------------------------------------------------------------------
\* The collector: an object from path to array, in insertion order.

\* Object.keys(errors)
Paths(errors) == [i \in 1..Len(errors) |-> errors[i].path]

HasPath(errors, path) == \E i \in 1..Len(errors) : errors[i].path = path

\* errors[path] (the empty array when the path has no entry)
ErrorsOf(errors, path) ==
    IF HasPath(errors, path)
    THEN errors[CHOOSE i \in 1..Len(errors) : errors[i].path = path].errors
    ELSE <<>>

addError(errors, path, error) ==
    IF ~HasPath(errors, path)
    THEN Append(errors, [path |-> path, errors |-> <<error>>])
    ELSE [i \in 1..Len(errors) |->
            IF errors[i].path = path
            THEN [path |-> path, errors |-> Append(errors[i].errors, error)]
            ELSE errors[i]]

----------------------------------------------------------------------------
\* Schemas (options.specs).  An object is its own enumerable properties in
\* key order; a FieldSpec is [required, type, hasAllowed, allowedValues].

FieldSpec(required, type) ==
    [required |-> required, type |-> type, hasAllowed |-> FALSE, allowedValues |-> <<>>]
FieldSpecAllowed(required, type, allowedValues) ==
    [required |-> required, type |-> type, hasAllowed |-> TRUE,
     allowedValues |-> allowedValues]
Field(name, spec) == [name |-> name, spec |-> spec]

\* hasOwn(specs, key)
hasOwn(fields, key) == \E i \in 1..Len(fields) : fields[i].name = key

\* specs[key]
SpecOf(fields, key) == fields[CHOOSE i \in 1..Len(fields) : fields[i].name = key].spec

\* Object.keys(frontmatter)
Keys(frontmatter) == [i \in 1..Len(frontmatter) |-> frontmatter[i].key]

\* array.indexOf(x) === -1
NotIn(seq, x) == \A i \in 1..Len(seq) : seq[i] # x

\* Mutant: pickBy(specs, s => s.required)
requiredFieldsTruthy(fields) == SelectSeq(fields, LAMBDA f : Truthy(f.spec.required))

\* pickBy(specs, s => s.required === true)
requiredFields(fields) == SelectSeq(fields, LAMBDA f : StrictEq(f.spec.required, VTrue))

\* Object.keys(requiredFields).forEach(...), from the i-th field on
RECURSIVE RequiredSweep(_, _, _, _, _)
RequiredSweep(required, frontmatter, errors, path, i) ==
    IF i > Len(required) THEN errors
    ELSE RequiredSweep(required, frontmatter,
            IF NotIn(Keys(frontmatter), required[i].name)
            THEN addError(errors, path, MissingKey(required[i].name))
            ELSE errors,
            path, i + 1)

\* Mutant: no return after INVALID_TYPE, so the allowed-value check follows
CheckKeyNoReturn(fields, errors, path, key, value) ==
    IF key = ""
    THEN [errors |-> addError(errors, path, EmptyKey), thrown |-> FALSE]
    ELSE IF ~hasOwn(fields, key)
    THEN [errors |-> addError(errors, path, InvalidKey(key)), thrown |-> FALSE]
    ELSE IF value.isNull \/ TypeOf(value) = "undefined"
    THEN [errors |-> addError(errors, path, EmptyValue(key)), thrown |-> FALSE]
    ELSE LET spec == SpecOf(fields, key)
             assertResult == assertType(value, spec.type)
             typed == IF ~assertResult.valid
                      THEN addError(errors, path,
                                    InvalidType(key, getType(spec.type), TypeOf(value)))
                      ELSE errors
         IN  IF assertResult.thrown
             THEN [errors |-> errors, thrown |-> TRUE]
             ELSE IF spec.hasAllowed /\ ~assertAllowedValue(value, spec.allowedValues)
             THEN [errors |-> addError(typed, path,
                                InvalidValue(key, JSONArray(spec.allowedValues), value)),
                   thrown |-> FALSE]
             ELSE [errors |-> typed, thrown |-> FALSE]

\* Mutant: the empty-value test made before the schema lookup
CheckKeyValueFirst(fields, errors, path, key, value) ==
    IF key = ""
    THEN [errors |-> addError(errors, path, EmptyKey), thrown |-> FALSE]
    ELSE IF value.isNull \/ TypeOf(value) = "undefined"
    THEN [errors |-> addError(errors, path, EmptyValue(key)), thrown |-> FALSE]
    ELSE IF ~hasOwn(fields, key)
    THEN [errors |-> addError(errors, path, InvalidKey(key)), thrown |-> FALSE]
    ELSE LET spec == SpecOf(fields, key)
             assertResult == assertType(value, spec.type)
         IN  IF assertResult.thrown
             THEN [errors |-> errors, thrown |-> TRUE]
             ELSE IF ~assertResult.valid
             THEN [errors |-> addError(errors, path,
                                InvalidType(key, getType(spec.type), TypeOf(value))),
                   thrown |-> FALSE]
             ELSE IF spec.hasAllowed /\ ~assertAllowedValue(value, spec.allowedValues)
             THEN [errors |-> addError(errors, path,
                                InvalidValue(key, JSONArray(spec.allowedValues), value)),
                   thrown |-> FALSE]
             ELSE [errors |-> errors, thrown |-> FALSE]

\* The callback of Object.keys(frontmatter).forEach, for one key:
\* [errors, thrown], thrown when assertType raises a TypeError.
CheckKey(fields, errors, path, key, value) ==
    IF key = ""
    THEN [errors |-> addError(errors, path, EmptyKey), thrown |-> FALSE]
    ELSE IF ~hasOwn(fields, key)
    THEN [errors |-> addError(errors, path, InvalidKey(key)), thrown |-> FALSE]
    ELSE IF value.isNull \/ TypeOf(value) = "undefined"
    THEN [errors |-> addError(errors, path, EmptyValue(key)), thrown |-> FALSE]
    ELSE LET spec == SpecOf(fields, key)
             assertResult == assertType(value, spec.type)
         IN  IF assertResult.thrown
             THEN [errors |-> errors, thrown |-> TRUE]
             ELSE IF ~assertResult.valid
             THEN [errors |-> addError(errors, path,
                                InvalidType(key, getType(spec.type), TypeOf(value))),
                   thrown |-> FALSE]
             ELSE IF spec.hasAllowed /\ ~assertAllowedValue(value, spec.allowedValues)
             THEN [errors |-> addError(errors, path,
                                InvalidValue(key, JSONArray(spec.allowedValues), value)),
                   thrown |-> FALSE]
             ELSE [errors |-> errors, thrown |-> FALSE]

\* Object.keys(frontmatter).forEach(...), from the i-th key on; an exception
\* leaves the loop with what was added so far
RECURSIVE KeySweep(_, _, _, _, _)
KeySweep(fields, frontmatter, errors, path, i) ==
    IF i > Len(frontmatter) THEN [errors |-> errors, thrown |-> FALSE]
    ELSE LET r == CheckKey(fields, errors, path, frontmatter[i].key, frontmatter[i].value)
         IN  IF r.thrown THEN r
             ELSE KeySweep(fields, frontmatter, r.errors, path, i + 1)

----------------------------------------------------------------------------
\* Exclusion (micromatch).  A path is its segments; a pattern is segments
\* where "*" stands for one segment and "**" for any number of them.

RECURSIVE GlobMatch(_, _)
GlobMatch(path, glob) ==
    IF glob = <<>> THEN path = <<>>
    ELSE IF Head(glob) = "**"
    THEN GlobMatch(path, Tail(glob)) \/ (path # <<>> /\ GlobMatch(Tail(path), glob))
    ELSE /\ path # <<>>
         /\ Head(glob) \in {"*", Head(path)}
         /\ GlobMatch(Tail(path), Tail(glob))

\* Mutant: patterns compared literally, as patterns.indexOf(path) would
mmLiteral(list, patterns) ==
    SelectSeq(list, LAMBDA p : \E i \in 1..Len(patterns) : p = patterns[i])

\* mm(list, patterns): the members of list some pattern matches
mm(list, patterns) ==
    SelectSeq(list, LAMBDA p : \E i \in 1..Len(patterns) : GlobMatch(p, patterns[i]))

\* options.exclude || []
ExcludeOf(options) == IF options.hasExclude THEN options.exclude ELSE <<>>

\* extendPageData($page) on the collector `errors`: [errors, thrown]
extendPageData(options, errors, page) ==
    LET regularPath == page.regularPath
        frontmatter == page.frontmatter
        matchesExclude == mm(<<regularPath>>, ExcludeOf(options))
    IN  IF Len(matchesExclude) > 0
        THEN [errors |-> errors, thrown |-> FALSE]
        ELSE KeySweep(options.specs.fields, frontmatter,
                      RequiredSweep(requiredFields(options.specs.fields), frontmatter,
                                    errors, regularPath, 1),
                      regularPath, 1)

----------------------------------------------------------------------------
\* Reporting

Line(tag, path, error, key, text) ==
    [tag |-> tag, path |-> path, error |-> error, key |-> key, text |-> text]

\* the lines errorsOnFile.forEach prints for one error
ErrorLines(e) ==
    IF e.error = "EMPTY_KEY"
    THEN <<Line("error", <<>>, e.error, "", <<>>)>>
    ELSE <<Line("error", <<>>, e.error, e.key, <<>>)>>
         \o (IF e.expected # <<>> THEN <<Line("expected", <<>>, "", "", e.expected)>> ELSE <<>>)
         \o (IF Truthy(e.got) THEN <<Line("got", <<>>, "", "", ToText(e.got))>> ELSE <<>>)

RECURSIVE FileLines(_, _)
FileLines(errorsOnFile, i) ==
    IF i > Len(errorsOnFile) THEN <<>>
    ELSE ErrorLines(errorsOnFile[i]) \o FileLines(errorsOnFile, i + 1)

RECURSIVE PathLines(_, _)
PathLines(errors, i) ==
    IF i > Len(errors) THEN <<>>
    ELSE <<Line("path", errors[i].path, "", "", <<>>)>>
         \o FileLines(errors[i].errors, 1)
         \o <<Line("blank", <<>>, "", "", <<>>)>>
         \o PathLines(errors, i + 1)

generateConsoleReport(errors) ==
    <<Line("invalid-frontmatter", <<>>, "", "", <<>>)>>
    \o PathLines(errors, 1)
    \o <<Line("blank", <<>>, "", "", <<>>)>>

\* JSON.stringify of one error object: a property is written when set
JSONError(e) ==
    [error |-> e.error, has |-> e.has, key |-> e.key, expected |-> e.expected,
     got |-> IF "got" \in e.has THEN <<JSONValue(e.got)>> ELSE <<>>]

\* JSON.stringify(errors, null, 4)
JSONErrors(errors) ==
    [i \in 1..Len(errors) |->
        [path |-> errors[i].path,
         errors |-> [j \in 1..Len(errors[i].errors) |-> JSONError(errors[i].errors[j])]]]

dumpFile == "./frontmatter-errors.json"

\* options.dumpFile || dumpFile
DumpFileOf(options) == IF options.dumpFile # "" THEN options.dumpFile ELSE dumpFile

NoFile == [written |-> FALSE, name |-> "", content |-> <<>>]

\* dumpErrorsToFile: the file written and the lines logged
dumpErrorsToFile(errors, fileName) ==
    [file |-> [written |-> TRUE, name |-> fileName, content |-> JSONErrors(errors)],
     lines |-> <<Line("dumped", <<>>, "", "", Text(fileName)),
                 Line("consider-auto-fixer", <<>>, "", "", <<>>),
                 Line("frontmatter-fix", <<>>, "", "", Text(fileName))>>]

----------------------------------------------------------------------------
\* options.postProcessErrors: the transforms a caller may supply, by name
\* ("" when none is supplied).  Each filters the mapping it is given.

\* drops every MISSING_KEY, and the paths left without an error
IgnoreMissing(errors) ==
    LET kept == [i \in 1..Len(errors) |->
                    [path |-> errors[i].path,
                     errors |-> SelectSeq(errors[i].errors,
                                          LAMBDA e : e.error # "MISSING_KEY")]]
    IN  SelectSeq(kept, LAMBDA entry : entry.errors # <<>>)

\* drops every INVALID_KEY, and keeps each path, with an empty array if need be
IgnoreInvalidKey(errors) ==
    [i \in 1..Len(errors) |->
        [path |-> errors[i].path,
         errors |-> SelectSeq(errors[i].errors, LAMBDA e : e.error # "INVALID_KEY")]]

postProcessErrors(hook, errors) ==
    CASE hook = "ignoreMissing" -> IgnoreMissing(errors)
      [] hook = "ignoreInvalidKey" -> IgnoreInvalidKey(errors)
      [] OTHER -> errors

\* updated(): the lines written
updated(errors) ==
    IF Len(Paths(errors)) > 0 THEN generateConsoleReport(errors) ELSE <<>>

\* Mutant: ready() without errorsByPath = {}
readyNoReset(options, errors) ==
    LET processed == IF options.postProcessErrors # ""
                     THEN postProcessErrors(options.postProcessErrors, errors)
                     ELSE errors
        dump == IF options.dumpToFile
                THEN dumpErrorsToFile(processed, DumpFileOf(options))
                ELSE [file |-> NoFile, lines |-> <<>>]
    IN  IF Len(Paths(processed)) > 0
        THEN [errors |-> processed,
              stdout |-> generateConsoleReport(processed) \o dump.lines
                         \o (IF options.abortBuild
                             THEN <<Line("aborting-build", <<>>, "", "", <<>>)>>
                             ELSE <<>>),
              file |-> dump.file,
              exit |-> options.abortBuild]
        ELSE [errors |-> processed, stdout |-> <<>>, file |-> NoFile, exit |-> FALSE]

\* ready(): the collector it leaves, the lines written, the file dumped,
\* and whether process.exit(1) was called
ready(options, errors) ==
    LET processed == IF options.postProcessErrors # ""
                     THEN postProcessErrors(options.postProcessErrors, errors)
                     ELSE errors
        dump == IF options.dumpToFile
                THEN dumpErrorsToFile(processed, DumpFileOf(options))
                ELSE [file |-> NoFile, lines |-> <<>>]
    IN  IF Len(Paths(processed)) > 0
        THEN [errors |-> <<>>,
              stdout |-> generateConsoleReport(processed) \o dump.lines
                         \o (IF options.abortBuild
                             THEN <<Line("aborting-build", <<>>, "", "", <<>>)>>
                             ELSE <<>>),
              file |-> dump.file,
              exit |-> options.abortBuild]
        ELSE [errors |-> processed, stdout |-> <<>>, file |-> NoFile, exit |-> FALSE]

\* module.exports(options, ctx): whether the returned plugin has the hooks,
\* and the line logged when it has not
Plugin(options) ==
    IF options.specs.falsy
    THEN [hooks |-> FALSE, stdout |-> <<Line("no-specs", <<>>, "", "", <<>>)>>]
    ELSE IF options.specs.typeof # "object"
    THEN [hooks |-> FALSE,
          stdout |-> <<Line("invalid-specs-type", <<>>, "", "", Text(options.specs.typeof))>>]
    ELSE [hooks |-> TRUE, stdout |-> <<>>]

----------------------------------------------------------------------------
\* Inputs

String == Ctor("String")
Number == Ctor("Number")
Date == Ctor("Date")

SpecsUndefined == [typeof |-> "undefined", falsy |-> TRUE, isArray |-> FALSE, fields |-> <<>>]
SpecsNull == [typeof |-> "object", falsy |-> TRUE, isArray |-> FALSE, fields |-> <<>>]
SpecsString == [typeof |-> "string", falsy |-> FALSE, isArray |-> FALSE, fields |-> <<>>]
SpecsFunction == [typeof |-> "function", falsy |-> FALSE, isArray |-> FALSE, fields |-> <<>>]
\* [{required: true, type: String}]: the indices are the enumerable keys
SpecsList ==
    [typeof |-> "object", falsy |-> FALSE, isArray |-> TRUE,
     fields |-> <<Field("0", FieldSpec(VTrue, String))>>]

AllowedTags == <<Str("blog"), Str("news")>>

\* a schema whose types are named constructors
SchemaMain ==
    [typeof |-> "object", falsy |-> FALSE, isArray |-> FALSE,
     fields |-> <<Field("title", FieldSpec(VTrue, String)),
                  Field("tag", FieldSpecAllowed(VUndefined, String, AllowedTags)),
                  Field("count", FieldSpec(Num("1"), Number)),
                  Field("date", FieldSpec(VFalse, Date))>>]

\* a schema whose types do not resolve to a name
SchemaLoose ==
    [typeof |-> "object", falsy |-> FALSE, isArray |-> FALSE,
     fields |-> <<Field("title", FieldSpec(VTrue, TUndefined)),
                  Field("tag", FieldSpecAllowed(VFalse, TText, AllowedTags)),
                  Field("count", FieldSpec(Num("1"), TAnon)),
                  Field("date", FieldSpec(VTrue, TArrow))>>]

Options(specs, hasExclude, exclude, hook, dumpToFile, abortBuild) ==
    [specs |-> specs, hasExclude |-> hasExclude, exclude |-> exclude,
     postProcessErrors |-> hook, dumpToFile |-> dumpToFile, dumpFile |-> "",
     abortBuild |-> abortBuild]

DraftsGlob == <<"drafts", "**">>

\* the configurations of a run
RunOptions ==
    { Options(specs, ex, IF ex THEN <<DraftsGlob>> ELSE <<>>, hook, dump, abort) :
        specs \in {SpecsUndefined, SpecsNull, SpecsString, SpecsFunction, SpecsList,
                   SchemaMain},
        ex \in BOOLEAN,
        hook \in {"", "ignoreMissing", "ignoreInvalidKey"},
        dump \in BOOLEAN, abort \in BOOLEAN }

ADate == DateObj("2020-01-01", 2)

Entry(key, value) == [key |-> key, value |-> value]
Page(regularPath, frontmatter) == [regularPath |-> regularPath, frontmatter |-> frontmatter]
NoPage == Page(<<>>, <<>>)

\* the documents of a run: a.md appears before and after an edit
Corpus ==
    { Page(<<"a.md">>, <<>>),
      Page(<<"a.md">>, <<Entry("title", Str("Hi")), Entry("date", ADate)>>),
      Page(<<"b.md">>, <<Entry("title", Str("Hi")), Entry("date", ADate),
                         Entry("tag", Str("opinion"))>>),
      Page(<<"drafts", "c.md">>, <<Entry("extra", Num("1")), Entry("title", Num("5"))>>) }

\* the configurations under which single records are validated
ValidateOptions ==
    { Options(specs, FALSE, <<>>, "", FALSE, FALSE) : specs \in {SchemaMain, SchemaLoose} }

DocPath == <<"docs", "page.md">>

\* collectors a pass may start from
Collectors ==
    { <<>>,
      <<[path |-> DocPath, errors |-> <<InvalidKey("old")>>]>>,
      <<[path |-> <<"other.md">>, errors |-> <<InvalidKey("old")>>]>> }

KeyNames == {"", "extra", "title", "tag", "count", "date"}
Values == {Str("Hi"), Str("blog"), Num("5"), VNull, VUndefined, Boxed("blog", 1), ADate}

\* frontmatter objects of at most MaxKeys keys: keys are distinct
Frontmatters ==
    UNION { { f \in [1..n -> {Entry(k, v) : k \in KeyNames, v \in Values}] :
                \A i, j \in 1..n : i # j => f[i].key # f[j].key } : n \in 0..MaxKeys }

Records == { Page(DocPath, f) : f \in Frontmatters }

----------------------------------------------------------------------------
\* State

VARIABLES
    options,        \* the options the plugin was built with
    hooks,          \* whether the plugin returned has the three hooks
    errorsByPath,   \* the collector
    stdout,         \* the lines the last call wrote to the console
    file,           \* the dump file
    exited,         \* process.exit(1) was called
    call,           \* the last call: its name, its page, the collector and the
                    \* file before it, whether it threw
    calls           \* the number of hook calls so far

vars == <<options, hooks, errorsByPath, stdout, file, exited, call, calls>>

Call(op, page, pre, preFile, thrown) ==
    [op |-> op, page |-> page, pre |-> pre, preFile |-> preFile, thrown |-> thrown]

Init ==
    /\ options \in RunOptions
    /\ hooks = Plugin(options).hooks
    /\ stdout = Plugin(options).stdout
    /\ errorsByPath = <<>>
    /\ file = NoFile
    /\ exited = FALSE
    /\ call = Call("module.exports", NoPage, <<>>, NoFile, FALSE)
    /\ calls = 0

ExtendPageData(page) ==
    /\ hooks /\ ~exited
    /\ LET r == extendPageData(options, errorsByPath, page)
       IN  /\ errorsByPath' = r.errors
           /\ call' = Call("extendPageData", page, errorsByPath, file, r.thrown)
    /\ stdout' = <<>>
    /\ calls' = calls + 1
    /\ UNCHANGED <<options, hooks, file, exited>>

Updated ==
    /\ hooks /\ ~exited
    /\ calls < MaxCalls
    /\ stdout' = updated(errorsByPath)
    /\ call' = Call("updated", NoPage, errorsByPath, file, FALSE)
    /\ calls' = calls + 1
    /\ UNCHANGED <<options, hooks, errorsByPath, file, exited>>

Ready ==
    /\ hooks /\ ~exited
    /\ calls < MaxCalls
    /\ LET r == ready(options, errorsByPath)
       IN  /\ errorsByPath' = r.errors
           /\ stdout' = r.stdout
           /\ file' = IF r.file.written THEN r.file ELSE file
           /\ exited' = r.exit
    /\ call' = Call("ready", NoPage, errorsByPath, file, FALSE)
    /\ calls' = calls + 1
    /\ UNCHANGED <<options, hooks>>

\* a run: the host calls the hooks in any order
ExtendCorpusPage == calls < MaxCalls /\ \E page \in Corpus : ExtendPageData(page)

Next == ExtendCorpusPage \/ Updated \/ Ready

Spec == Init /\ [][Next]_vars

\* one record validated against one schema, from any collector
InitValidate ==
    /\ options \in ValidateOptions
    /\ hooks = Plugin(options).hooks
    /\ stdout = Plugin(options).stdout
    /\ errorsByPath \in Collectors
    /\ file = NoFile
    /\ exited = FALSE
    /\ call = Call("module.exports", NoPage, <<>>, NoFile, FALSE)
    /\ calls = 0

ValidateRecord == calls < 1 /\ \E page \in Records : ExtendPageData(page)

NextValidate == ValidateRecord

SpecValidate == InitValidate /\ [][NextValidate]_vars

----------------------------------------------------------------------------
\* What the last call was, and what it added

LastPass == call.op = "extendPageData"

Fields == options.specs.fields
Declared(key) == \E i \in 1..Len(Fields) : Fields[i].name = key
Nullish(value) == value = VNull \/ value = VUndefined

\* some exclusion pattern matches the path
MatchesExclusion(path) ==
    \E i \in 1..Len(ExcludeOf(options)) : GlobMatch(path, ExcludeOf(options)[i])

\* the last call validated its page
Validated == LastPass /\ ~MatchesExclusion(call.page.regularPath)

IsPrefix(a, b) == Len(a) <= Len(b) /\ SubSeq(b, 1, Len(a)) = a

\* the violations the last pass appended under its page's identity
Added ==
    LET before == ErrorsOf(call.pre, call.page.regularPath)
        after == ErrorsOf(errorsByPath, call.page.regularPath)
    IN  SubSeq(after, Len(before) + 1, Len(after))

\* the last pass only appended, and only under its page's identity
AppendOnly ==
    /\ IsPrefix(ErrorsOf(call.pre, call.page.regularPath),
                ErrorsOf(errorsByPath, call.page.regularPath))
    /\ \A i \in 1..Len(call.pre) :
          call.pre[i].path # call.page.regularPath =>
            /\ i <= Len(errorsByPath)
            /\ errorsByPath[i] = call.pre[i]
    /\ \A i \in 1..Len(errorsByPath) :
          errorsByPath[i].path # call.page.regularPath =>
            i <= Len(call.pre) /\ errorsByPath[i] = call.pre[i]

\* the type check of the i-th key of the page raises a TypeError
Raises(entry) ==
    /\ entry.key # ""
    /\ Declared(entry.key)
    /\ ~Nullish(entry.value)
    /\ assertType(entry.value, SpecOf(Fields, entry.key).type).thrown

\* the per-key sweep gets to the i-th key
Reached(frontmatter, i) == \A j \in 1..(i - 1) : ~Raises(frontmatter[j])

Kind(error, key) == [error |-> error, key |-> key]
KindsOf(violations) ==
    [i \in 1..Len(violations) |->
        Kind(violations[i].error,
             IF "key" \in violations[i].has THEN violations[i].key ELSE "")]

\* the violation that the first condition holding for a key calls for
FirstCondition(entry) ==
    IF entry.key = "" THEN <<Kind("EMPTY_KEY", "")>>
    ELSE IF ~Declared(entry.key) THEN <<Kind("INVALID_KEY", entry.key)>>
    ELSE IF Nullish(entry.value) THEN <<Kind("EMPTY_VALUE", entry.key)>>
    ELSE IF ~assertType(entry.value, SpecOf(Fields, entry.key).type).valid
    THEN <<Kind("INVALID_TYPE", entry.key)>>
    ELSE IF /\ SpecOf(Fields, entry.key).hasAllowed
            /\ ~assertAllowedValue(entry.value, SpecOf(Fields, entry.key).allowedValues)
    THEN <<Kind("INVALID_VALUE", entry.key)>>
    ELSE <<>>

RECURSIVE PerKeyExpected(_, _)
PerKeyExpected(frontmatter, i) ==
    IF i > Len(frontmatter) THEN <<>>
    ELSE (IF Reached(frontmatter, i) /\ ~Raises(frontmatter[i])
          THEN FirstCondition(frontmatter[i]) ELSE <<>>)
         \o PerKeyExpected(frontmatter, i + 1)

PerKeyAdded == SelectSeq(Added, LAMBDA e : e.error # "MISSING_KEY")

----------------------------------------------------------------------------
----------------------------------------------------------------------------
\* the schema fields with required === true that the page does not have
MissingRequired ==
    { Fields[i].name : i \in { j \in 1..Len(Fields) :
        /\ Fields[j].spec.required = VTrue
        /\ \A k \in 1..Len(call.page.frontmatter) :
              call.page.frontmatter[k].key # Fields[j].name } }

\* the key a per-key violation is about (EMPTY_KEY is about the key '')
KeyOf(violation) == IF violation.error = "EMPTY_KEY" THEN "" ELSE violation.key

\* the position of a key in the page's own key order (0 when absent)
PositionOf(key) ==
    LET at == { i \in 1..Len(call.page.frontmatter) : call.page.frontmatter[i].key = key }
    IN  IF at = {} THEN 0 ELSE CHOOSE i \in at : TRUE

\* C2: a pass over a record that is not excluded appends to the record's
\* entry exactly one MISSING_KEY for each field with required === true that
\* is not a key of the metadata, none for another field, all of them before
\* the per-key violations, which follow in the record's key order.
C2_MissingKeysFirst ==
    Validated =>
        LET m == Cardinality(MissingRequired)
        IN  /\ AppendOnly
            /\ Len(Added) >= m
            /\ { Added[i].key : i \in 1..m } = MissingRequired
            /\ \A i \in 1..Len(Added) : (Added[i].error = "MISSING_KEY") <=> (i <= m)
            /\ \A i, j \in (m + 1)..Len(Added) :
                  i < j => /\ PositionOf(KeyOf(Added[i])) > 0
                           /\ PositionOf(KeyOf(Added[i])) < PositionOf(KeyOf(Added[j]))

\* a pass appended two MISSING_KEY and then two per-key violations to an
\* entry that already held a violation
C2_Witness ==
    /\ Validated
    /\ Cardinality(MissingRequired) = 2
    /\ Len(Added) = 4
    /\ ErrorsOf(call.pre, call.page.regularPath) # <<>>

\* every field with required === true is a key of the page
RequiredPresent == MissingRequired = {}

\* the value is of the field's type: of the primitive kind the type names,
\* or an instance of the constructor
TypedCorrectly(entry) ==
    /\ ~assertType(entry.value, SpecOf(Fields, entry.key).type).thrown
    /\ assertType(entry.value, SpecOf(Fields, entry.key).type).valid

\* the value is one of the values the field allows, if it names any
AllowedValue(entry) ==
    LET spec == SpecOf(Fields, entry.key)
    IN  spec.hasAllowed =>
            \E i \in 1..Len(spec.allowedValues) : spec.allowedValues[i] = entry.value

\* the key is a declared field holding a well-typed, allowed value
CleanEntry(entry) ==
    /\ entry.key # ""
    /\ Declared(entry.key)
    /\ ~Nullish(entry.value)
    /\ TypedCorrectly(entry)
    /\ AllowedValue(entry)

\* C3, as stated: when every field with required = true is present,
\* correctly typed and holds an allowed value, the pass records nothing.
C3_AsStated ==
    ( /\ Validated
      /\ RequiredPresent
      /\ \A i \in 1..Len(call.page.frontmatter) :
            LET e == call.page.frontmatter[i]
            IN  (Declared(e.key) /\ SpecOf(Fields, e.key).required = VTrue)
                    => CleanEntry(e) )
    => errorsByPath = call.pre

\* C3, amended: when every field with required === true is present and
\* every key of the metadata is a declared field holding a non-empty,
\* correctly typed and allowed value, the pass records nothing: the
\* collector is as before, with no entry created.
C3_CleanRecordNoViolation ==
    ( /\ Validated
      /\ RequiredPresent
      /\ \A i \in 1..Len(call.page.frontmatter) : CleanEntry(call.page.frontmatter[i]) )
    => errorsByPath = call.pre

\* a clean record of two keys, one of them a constrained field holding its
\* first allowed value, went through a collector that has no entry for it
C3_Witness ==
    /\ Validated
    /\ RequiredPresent
    /\ Len(call.page.frontmatter) = 2
    /\ \A i \in 1..Len(call.page.frontmatter) : CleanEntry(call.page.frontmatter[i])
    /\ \E i \in 1..Len(call.page.frontmatter) :
          call.page.frontmatter[i] = Entry("tag", Str("blog"))
    /\ ~HasPath(errorsByPath, call.page.regularPath)

\* the number of added violations of a kind that name a key
CountAdded(error, key) ==
    Cardinality({ i \in 1..Len(Added) : KindsOf(Added)[i] = Kind(error, key) })

----------------------------------------------------------------------------
\* the schema is a mapping, and the last call printed a report
Reported ==
    /\ ~options.specs.isArray
    /\ call.op \in {"updated", "ready"}
    /\ stdout # <<>>

\* C5: whenever updated() or ready() has reported the collector's contents,
\* the collector is empty, so that nothing reported is reported again.
C5_ReportedThenEmpty == Reported => errorsByPath = <<>>

\* C6: extendPageData never throws, whatever the schema's types are.
C6_NeverThrows == LastPass => ~call.thrown

\* the schema supplied is a primitive, a bare function or a list
NotAMapping ==
    /\ ~options.specs.falsy
    /\ options.specs.typeof # "object" \/ options.specs.isArray

\* C7: under a schema that is not a mapping no violation is ever recorded.
C7_NotAMappingRecordsNothing == NotAMapping => errorsByPath = <<>>

\* the collector as the hook supplied leaves it
PostProcessed(errors) ==
    IF options.postProcessErrors = "" THEN errors
    ELSE postProcessErrors(options.postProcessErrors, errors)

\* C8: with a postProcessErrors hook, every report printed, by updated() or
\* by ready(), shows the hook's output.
C8_ReportsShowHookOutput ==
    (Reported /\ options.postProcessErrors # "") =>
        IsPrefix(generateConsoleReport(PostProcessed(call.pre)), stdout)

\* C9: ready() drains: on an empty collector it prints nothing and writes
\* no file; on a populated one it prints every entry the hook leaves, each
\* identity with its violations in order, writes them to the dump file if
\* dumpToFile is set, and the collector is empty afterwards.
C9_ReadyDrains ==
    call.op = "ready" =>
        LET handed == PostProcessed(call.pre)
        IN  /\ errorsByPath = <<>>
            /\ call.pre = <<>> => (stdout = <<>> /\ file = call.preFile)
            /\ handed = <<>> => (stdout = <<>> /\ file = call.preFile)
            /\ handed # <<>> =>
                  /\ IsPrefix(generateConsoleReport(handed), stdout)
                  /\ options.dumpToFile =>
                        file = [written |-> TRUE, name |-> dumpFile,
                                content |-> JSONErrors(handed)]
                  /\ ~options.dumpToFile => file = call.preFile

\* ready() ran on a collector of two identities, under a hook that changed
\* it, and dumped what it printed
C9_Witness ==
    /\ call.op = "ready"
    /\ Len(call.pre) = 2
    /\ PostProcessed(call.pre) # call.pre
    /\ PostProcessed(call.pre) # <<>>
    /\ file.written /\ ~call.preFile.written
    /\ errorsByPath = <<>>

\* C10: no violation is ever recorded under an identity that the exclusion
\* patterns match, and validating such a document leaves the collector as
\* it was.
C10_ExcludedNeverRecorded ==
    /\ \A i \in 1..Len(errorsByPath) : ~MatchesExclusion(errorsByPath[i].path)
    /\ (LastPass /\ MatchesExclusion(call.page.regularPath)) =>
            errorsByPath = call.pre

\* an excluded document with invalid metadata was validated while the
\* collector held another document's violations
C10_Witness ==
    /\ LastPass
    /\ MatchesExclusion(call.page.regularPath)
    /\ call.page.frontmatter # <<>>
    /\ errorsByPath # <<>>

====
